---------------------------- MODULE Spec2Model ----------------------------
(***************************************************************************)
(* A model of the stack virtual machine of src/vmma18/src/main.rs.         *)
(*                                                                         *)
(* A 32-bit word is modelled by the two's-complement value of its bit      *)
(* pattern, an integer in -2^31 .. 2^31-1.  The casts `as i32` and `as u32`*)
(* of the source keep the bit pattern, so they are the identity on this    *)
(* representation; every operation that reads a word as unsigned (the      *)
(* shifts and masks of fetch, the comparisons of BinaryIf) is written out  *)
(* on the pattern.  No operator below ever forms an integer outside        *)
(* -2^31 .. 2^31-1.                                                        *)
(***************************************************************************)
EXTENDS Integers, Sequences, FiniteSets, TLC

VARIABLES
    program,          \* the word sequence handed to load (main.rs:17-20)
    ram,              \* Machine.ram: its nonzero words, by address (see Word)
    sp,               \* Machine.sp
    pc,               \* Machine.pc
    input,            \* Machine.input: the bytes not yet read
    output,           \* Machine.output: the bytes written so far
    console,          \* number of lines println! wrote (Debug)
    status,           \* "new", "running", or how load / run ended:
                      \* "load_error", "halted", "fault" (an Err value), "panic"
    code,             \* the halt code run returned (meaningful when status = "halted")
    error,            \* the Err message or the panic message ("" when none)
    overflow_checks,  \* build profile: TRUE = overflow checks on (debug), FALSE = off (release)
    streams,          \* how the reader, the writer and the standard output behave (see Sound)
    trace             \* history: the instructions executed so far

vars == <<program, ram, sp, pc, input, output, console, status, code, error,
          overflow_checks, streams, trace>>

-----------------------------------------------------------------------------
(* Sizes and limits of the source. *)

RamSize == 1024

MaxI32 == 2147483647

MinI32 == -MaxI32 - 1

MaxI16 == 32767

MinI16 == -MaxI16 - 1

\* A run is followed for at most MaxSteps instructions.
MaxSteps == 10

\* Machine.ram is an array of RamSize words, zero-filled at construction.  The
\* variable ram holds it as the function from the addresses of its nonzero
\* words to those words; Word reads the array and Store writes it.
Word(ramv, a) == IF a \in DOMAIN ramv THEN ramv[a] ELSE 0

Store(ramv, a, w) ==
    IF w = 0 THEN [x \in (DOMAIN ramv) \ {a} |-> ramv[x]]
    ELSE [x \in (DOMAIN ramv) \cup {a} |-> IF x = a THEN w ELSE ramv[x]]

\* 2^n for 0 <= n <= 30.
Pow2(n) ==
    <<1, 2, 4, 8, 16, 32, 64, 128, 256, 512, 1024, 2048, 4096, 8192, 16384,
      32768, 65536, 131072, 262144, 524288, 1048576, 2097152, 4194304,
      8388608, 16777216, 33554432, 67108864, 134217728, 268435456,
      536870912, 1073741824>>[n + 1]

\* `x as i16` for an integer x given by value: keep the low 16 bits.
AsI16(x) ==
    LET m == x % 65536
    IN  IF m >= 32768 THEN m - 65536 ELSE m

\* `w & (2^k - 1)` for 0 <= k <= 31: the low k bits of the pattern.
LowBits(w, k) ==
    IF k = 31 THEN (IF w >= 0 THEN w ELSE w - MinI32) ELSE w % Pow2(k)

\* `w >> k` on u32 (logical), 0 <= k <= 31; the result is given as a pattern.
ShrU32(w, k) ==
    IF k = 0 THEN w
    ELSE IF k = 31 THEN (IF w < 0 THEN 1 ELSE 0)
    ELSE IF w >= 0 THEN w \div Pow2(k)
    ELSE ((w - MinI32) \div Pow2(k)) + Pow2(31 - k)

\* `w >> k` on i32 (arithmetic), 0 <= k <= 31.
ShrI32(w, k) ==
    IF k = 31 THEN (IF w < 0 THEN -1 ELSE 0) ELSE w \div Pow2(k)

\* `w << k` on 32 bits, 0 <= k <= 31: the bits shifted out are dropped.
ShlI32(w, k) ==
    IF k = 0 THEN w
    ELSE LET keep == LowBits(w, 32 - k)   \* the bits that stay
             top  == Pow2(31 - k)          \* the one of them that lands on bit 31
         IN  IF keep >= top THEN ((keep - top) * Pow2(k - 1)) * 2 + MinI32
             ELSE (keep * Pow2(k - 1)) * 2

\* Wrapping two's-complement sum and difference of two i32.
WrapAdd(l, r) ==
    IF l >= 0 /\ r >= 0
    THEN (IF l > MaxI32 - r THEN (l + MinI32) + (r + MinI32) ELSE l + r)
    ELSE IF l < 0 /\ r < 0
    THEN (IF l < MinI32 - r THEN (l - MinI32) + (r - MinI32) ELSE l + r)
    ELSE l + r

AddOverflows(l, r) ==
    \/ l >= 0 /\ r >= 0 /\ l > MaxI32 - r
    \/ l < 0 /\ r < 0 /\ l < MinI32 - r

\* !x on i32.
NotI32(x) == (-1) - x

\* x.wrapping_neg() on i32.
WrappingNeg(x) == IF x = MinI32 THEN MinI32 ELSE -x

WrapSub(l, r) ==
    IF r = MinI32
    THEN (IF l >= 0 THEN (l + MinI32) ELSE (l - MinI32))
    ELSE WrapAdd(l, -r)

SubOverflows(l, r) ==
    IF r = MinI32 THEN l >= 0 ELSE AddOverflows(l, -r)

\* Wrapping product, from the 16-bit halves of l and the bytes of r's low
\* half, so that no partial product leaves 32 bits:
\*   l * r = ll*r0 + (ll*r1 << 8) + ((lh*rl + ll*rh) << 16)   (mod 2^32)
WrapMul(l, r) ==
    LET ll == l % 65536
        lh == l \div 65536
        rl == r % 65536
        rh == r \div 65536
        r0 == rl % 256
        r1 == rl \div 256
        cross == (((lh * rl) % 65536) + ((ll * rh) % 65536)) % 65536
    IN  WrapAdd(WrapAdd(ll * r0, ShlI32(ll * r1, 8)), ShlI32(cross, 16))

\* Whether the exact product of two i32 leaves the i32 range.
MulOverflows(l, r) ==
    IF l = 0 \/ r = 0 THEN FALSE
    ELSE IF l > 0 /\ r > 0 THEN l > MaxI32 \div r
    ELSE IF l > 0 /\ r < 0 THEN r < (MinI32 + (l - 1)) \div l
    ELSE IF l < 0 /\ r > 0 THEN l < (MinI32 + (r - 1)) \div r
    ELSE IF l = MinI32 \/ r = MinI32 THEN TRUE
    ELSE (-l) > MaxI32 \div (-r)

\* Quotient rounded toward zero, for a divisor d > 0.
TruncDivPos(l, d) ==
    IF l < 0 /\ l % d # 0 THEN (l \div d) + 1 ELSE l \div d

\* `l / r` on i32 where it does not panic (r # 0, not MinI32 / -1).
TruncDiv(l, r) ==
    IF r > 0 THEN TruncDivPos(l, r)
    ELSE IF r = MinI32 THEN (IF l = MinI32 THEN 1 ELSE 0)
    ELSE -TruncDivPos(l, -r)

\* Remainder with the sign of the dividend, for a divisor d > 0.
TruncRemPos(l, d) ==
    IF l < 0 /\ l % d # 0 THEN (l % d) - d ELSE l % d

\* `l % r` on i32 where it does not panic.
TruncRem(l, r) ==
    IF r > 0 THEN TruncRemPos(l, r)
    ELSE IF r = MinI32 THEN (IF l = MinI32 THEN 0 ELSE l)
    ELSE TruncRemPos(l, -r)

\* Bitwise combination of two i32 by the truth table f (a function on
\* <<bit, bit>>), over the sign-extended patterns.
RECURSIVE Bitwise(_, _, _)
Bitwise(f, l, r) ==
    IF l \in {0, -1} /\ r \in {0, -1}
    THEN -f[<<-l, -r>>]
    ELSE 2 * Bitwise(f, l \div 2, r \div 2) + f[<<l % 2, r % 2>>]

AndTable == [b \in {0, 1} \X {0, 1} |-> IF b[1] = 1 /\ b[2] = 1 THEN 1 ELSE 0]

OrTable == [b \in {0, 1} \X {0, 1} |-> IF b[1] = 1 \/ b[2] = 1 THEN 1 ELSE 0]

XorTable == [b \in {0, 1} \X {0, 1} |-> IF b[1] # b[2] THEN 1 ELSE 0]

\* `l < r` on u32: a pattern with bit 31 set is the larger.
LtU32(l, r) ==
    IF (l < 0) = (r < 0) THEN l < r ELSE r < 0

\* The shift amount Rust uses for `x << r` / `x >> r` on i32 with r: i32
\* when overflow checks are off: r masked to five bits.
ShiftAmount(r) == r % 32

\* Whether `x << r` / `x >> r` overflows: the amount is not in 0..31.
ShiftOverflows(r) == r < 0 \/ r > 31

\* i16 addition: the wrapped sum, and whether the exact sum leaves i16.
AddI16(a, b) == AsI16(a + b)

AddI16Overflows(a, b) == a + b < MinI16 \/ a + b > MaxI16

-----------------------------------------------------------------------------
(* Lines of input.  The input stream is a sequence of bytes; read_line     *)
(* turns each byte into the char of that code point.                       *)

NewLine == 10

\* The position of the first newline or null byte of s, Len(s) + 1 if none.
LineEnd(s) ==
    IF \E i \in 1..Len(s) : s[i] \in {NewLine, 0}
    THEN CHOOSE i \in 1..Len(s) :
            /\ s[i] \in {NewLine, 0}
            /\ \A j \in 1..(i - 1) : s[j] \notin {NewLine, 0}
    ELSE Len(s) + 1

\* A call of read, write, flush or println! may fail.  A plan says when a
\* stream does: never (Sound), or, with fails = TRUE, once it has served
\* `after` more units: bytes delivered by the reader, bytes accepted by the
\* writer, lines printed by println!.
Sound == [fails |-> FALSE, after |-> 0]

\* Whether the stream serves n more units without failing.
Accepts(plan, n) == ~plan.fails \/ n <= plan.after

\* read_line on the bytes s left in a reader with the given plan.  The loop
\* calls read once per byte up to and including the terminator, or once more
\* than there are bytes when there is none (the call that finds the end):
\* LineEnd(s) calls, the j-th made when j - 1 bytes are delivered.  When all
\* of them succeed the result is the chars up to the terminator and the bytes
\* left after it; otherwise Err("IO error"), with the bytes the reader
\* delivered before it failed gone from it.
read_line(s, plan) ==
    IF Accepts(plan, LineEnd(s))
    THEN [ok   |-> TRUE,
          line |-> SubSeq(s, 1, LineEnd(s) - 1),
          rest |-> SubSeq(s, LineEnd(s) + 1, Len(s))]
    ELSE [ok   |-> FALSE,
          line |-> <<>>,
          rest |-> SubSeq(s, plan.after + 1, Len(s))]

\* write_all / writeln! of the given bytes on a writer with the given plan:
\* whether every write succeeded, and the bytes that reached the output.
write_all(bytes, plan) ==
    [ok      |-> Accepts(plan, Len(bytes)),
     written |-> IF Accepts(plan, Len(bytes)) THEN bytes
                 ELSE SubSeq(bytes, 1, plan.after)]

\* char::is_whitespace for the code points below 256.
WhiteSpace == {9, 10, 11, 12, 13, 32, 133, 160}

\* str::trim on a sequence of chars.
trim(s) ==
    LET keep == {i \in 1..Len(s) : s[i] \notin WhiteSpace}
    IN  IF keep = {} THEN <<>>
        ELSE SubSeq(s, CHOOSE i \in keep : \A j \in keep : i <= j,
                       CHOOSE i \in keep : \A j \in keep : i >= j)

\* The UTF-8 bytes of a String holding the chars s (all below 256): a char
\* below 128 is one byte, any other is two.
RECURSIVE Utf8(_)
Utf8(s) ==
    IF s = <<>> THEN <<>>
    ELSE (IF s[1] < 128 THEN <<s[1]>>
          ELSE <<192 + (s[1] \div 64), 128 + (s[1] % 64)>>) \o Utf8(Tail(s))

\* str::is_char_boundary(i) on the bytes b of a String.
is_char_boundary(b, i) ==
    \/ i = 0
    \/ i = Len(b)
    \/ i < Len(b) /\ ~(b[i + 1] \in 128..191)

\* The value of a digit char in the given radix, -1 if it is none
\* (char::to_digit).
to_digit(c, radix) ==
    LET v == IF c \in 48..57 THEN c - 48
             ELSE IF c \in 97..122 THEN c - 97 + 10
             ELSE IF c \in 65..90 THEN c - 65 + 10
             ELSE -1
    IN  IF v >= 0 /\ v < radix THEN v ELSE -1

NoValue == [ok |-> FALSE, val |-> 0]

\* The digit loop of i32::from_str_radix: acc * radix + d (or - d for a
\* negative number) with checked arithmetic.
RECURSIVE ParseDigits(_, _, _, _)
ParseDigits(ds, acc, radix, neg) ==
    IF ds = <<>> THEN [ok |-> TRUE, val |-> acc]
    ELSE LET d == to_digit(ds[1], radix)
         IN  IF d < 0 THEN NoValue
             ELSE IF ~neg /\ acc > (MaxI32 - d) \div radix THEN NoValue
             ELSE IF neg /\ acc < (MinI32 + d + (radix - 1)) \div radix THEN NoValue
             ELSE ParseDigits(Tail(ds), IF neg THEN acc * radix - d ELSE acc * radix + d,
                              radix, neg)

\* i32::from_str_radix on a sequence of chars.
from_str_radix(s, radix) ==
    IF s = <<>> THEN NoValue
    ELSE IF Len(s) = 1 /\ s[1] \in {43, 45} THEN NoValue
    ELSE IF s[1] = 43 THEN ParseDigits(Tail(s), 0, radix, FALSE)
    ELSE IF s[1] = 45 THEN ParseDigits(Tail(s), 0, radix, TRUE)
    ELSE ParseDigits(s, 0, radix, FALSE)

\* Whether s starts with the two chars c1 c2 (str::strip_prefix).
HasPrefix(s, c1, c2) == Len(s) >= 2 /\ s[1] = c1 /\ s[2] = c2

-----------------------------------------------------------------------------
(* Formatting of output. *)

\* The char of a digit 0..15, lower case.
DigitChar(d) == IF d < 10 THEN 48 + d ELSE 87 + d

\* `w >> s` on u32 for any s >= 0 (zero once every bit is shifted out).
ShiftOut(w, s) == IF s > 31 THEN 0 ELSE ShrU32(w, s)

\* The digits of the pattern w read as u32, k bits per digit (k = 1 binary,
\* 3 octal, 4 hexadecimal), without leading zeros: {:b}, {:o}, {:x} of i32.
RadixDigits(w, k) ==
    LET n == CHOOSE m \in 1..32 :
                /\ ShiftOut(w, k * m) = 0
                /\ \A j \in 1..(m - 1) : ShiftOut(w, k * j) # 0
    IN  [i \in 1..n |-> DigitChar(ShiftOut(w, k * (n - i)) % Pow2(k))]

\* {:0n$x} of the pattern w read as u32, for n >= its number of digits.
PaddedHex(w, n) == [i \in 1..n |-> DigitChar(ShrU32(w, 4 * (n - i)) % 16)]

Pow10(n) ==
    <<1, 10, 100, 1000, 10000, 100000, 1000000, 10000000, 100000000,
      1000000000>>[n + 1]

\* {} of an i32: the decimal digits, after a minus sign if negative.
Decimal(v) ==
    LET used == {i \in 0..9 : TruncDiv(v, Pow10(i)) # 0}
        n    == IF used = {} THEN 1 ELSE 1 + CHOOSE i \in used : \A j \in used : j <= i
        dig(i) == LET r == TruncRem(TruncDiv(v, Pow10(i)), 10)
                  IN  IF r < 0 THEN -r ELSE r
    IN  (IF v < 0 THEN <<45>> ELSE <<>>) \o [i \in 1..n |-> 48 + dig(n - i)]

\* The line Print writes for the word val under format selector sel.
PrintLine(val, sel) ==
    (CASE sel = 0 -> Decimal(val)
       [] sel = 1 -> <<48, 120>> \o RadixDigits(val, 4)
       [] sel = 2 -> <<48, 98>> \o RadixDigits(val, 1)
       [] sel = 3 -> <<48, 111>> \o RadixDigits(val, 3)) \o <<NewLine>>

\* What Dump writes: one line "{:04x}: {:08x}" per word from sp to 1023.
DumpBytes(ramv, spv) ==
    LET count == IF spv < RamSize THEN RamSize - spv ELSE 0
        line(r) == PaddedHex(r, 4) \o <<58, 32>> \o PaddedHex(Word(ramv, spv + r), 8)
                     \o <<NewLine>>
    IN  [j \in 1..(15 * count) |-> line((j - 1) \div 15)[((j - 1) % 15) + 1]]

-----------------------------------------------------------------------------
(* Packed strings: Stinput's encoding and Stprint's walk. *)

\* Byte i (0 = least significant) of a word: to_le_bytes()[i].
ByteOf(w, i) == ShrU32(w, 8 * i) % 256

\* The bytes of the String after `while len % 3 != 0 { push(0x01) }`.
PadToThree(b) == b \o [i \in 1..((3 - (Len(b) % 3)) % 3) |-> 1]

\* The words Stinput pushes for the padded bytes p, in the order it pushes
\* them: rchunks(3) starts from the last chunk, and every chunk but that one
\* carries the continuation flag.
StinputWords(p) ==
    LET n == Len(p) \div 3
        word(c) == p[3 * c] * 65536 + p[3 * c - 1] * 256 + p[3 * c - 2]
                     + (IF c # n THEN 16777216 ELSE 0)
    IN  [j \in 1..n |-> word(n - j + 1)]

\* The index at which Stprint's loop stops after starting at idx (in range):
\* the first word that is zero, or has a zero top byte, or lies at index 0,
\* or RamSize when the walk runs off the end of ram.
StprintStop(ramv, idx) ==
    LET stops(j) == j = RamSize \/ Word(ramv, j) = 0 \/ ByteOf(Word(ramv, j), 3) = 0 \/ j = 0
    IN  CHOOSE j \in idx..RamSize :
            stops(j) /\ \A i \in idx..(j - 1) : ~stops(i)

\* The bytes Stprint writes when it starts at idx (in range).
StprintBytes(ramv, idx) ==
    LET stop == StprintStop(ramv, idx)
        last == IF stop = RamSize THEN RamSize - 1
                ELSE IF Word(ramv, stop) = 0 THEN stop - 1 ELSE stop
        flat == [j \in 1..(4 * (last - idx + 1)) |->
                    ByteOf(Word(ramv, idx + ((j - 1) \div 4)), (j - 1) % 4)]
    IN  SelectSeq(flat, LAMBDA b : b # 1)

-----------------------------------------------------------------------------
(* The instruction codec. *)

\* A decoded instruction: its variant and up to two operands.
Instr(op, a, b) == [op |-> op, a |-> a, b |-> b, msg |-> ""]

\* A fetch that panics instead of returning an instruction.
FetchPanics(msg) == [op |-> "panic", a |-> 0, b |-> 0, msg |-> msg]

\* Opcode::from_integer: the group of the top four bits.
from_integer(n) ==
    CASE n = 0  -> "Miscellaneous"
      [] n = 1  -> "Pop"
      [] n = 2  -> "BinaryArithmetic"
      [] n = 3  -> "UnaryArithmetic"
      [] n = 4  -> "StringPrint"
      [] n = 5  -> "Call"
      [] n = 6  -> "Return"
      [] n = 7  -> "Goto"
      [] n = 8  -> "BinaryIf"
      [] n = 9  -> "UnaryIf"
      [] n = 12 -> "Dup"
      [] n = 13 -> "Print"
      [] n = 14 -> "Dump"
      [] n = 15 -> "Push"
      [] OTHER  -> "Unknown"

\* The value of the low k bits of inst sign-extended from bit k-1.
SignExtend(inst, k) ==
    LET raw == LowBits(inst, k)
    IN  IF raw >= Pow2(k - 1) THEN raw - Pow2(k) ELSE raw

BinaryNames ==
    <<"Add", "Subtract", "Multiply", "Divide", "Remainder", "And", "Or", "Xor",
      "LogicalLeftShift", "LogicalRightShift", "", "ArithmeticRightShift">>

\* A halt code taken from the second byte of the word.
exit_code_second_byte(inst) == (inst \div 256) % 256

\* The halt code of an Exit word: inst as u8 & 0xFF.
exit_code(inst) == inst % 256

\* The decoding of the Miscellaneous group.
decode_miscellaneous(inst) ==
    LET sub == ShrU32(inst, 24) % 16
    IN  CASE sub = 0  -> Instr("Exit", exit_code(inst), 0)
          [] sub = 1  -> Instr("Swap", LowBits(ShrU32(inst, 12), 12), LowBits(inst, 12))
          [] sub = 2  -> Instr("Nop", 0, 0)
          [] sub = 4  -> Instr("Input", 0, 0)
          [] sub = 5  -> Instr("Stinput", LowBits(inst, 24), 0)
          [] sub = 15 -> Instr("Debug", LowBits(inst, 24), 0)
          [] OTHER    -> FetchPanics("Invalid Miscellaneous Instruction")

\* The decoding of the BinaryArithmetic and UnaryArithmetic groups.
decode_binary(inst) ==
    LET sub == ShrU32(inst, 24) % 16
    IN  IF sub \in (0..9) \cup {11} THEN Instr(BinaryNames[sub + 1], 0, 0)
        ELSE FetchPanics("Invalid Binary Arithmetic Instruction")

decode_unary(inst) ==
    LET sub == ShrU32(inst, 24) % 16
    IN  CASE sub = 0 -> Instr("Negate", 0, 0)
          [] sub = 1 -> Instr("Not", 0, 0)
          [] OTHER   -> FetchPanics("Invalid Unary Arithmetic Instruction")

\* The decoding of a word into an instruction.
decode(inst) ==
    LET opcode == from_integer(ShrU32(inst, 28) % 16)
    IN  CASE opcode = "Miscellaneous"    -> decode_miscellaneous(inst)
          [] opcode = "BinaryArithmetic" -> decode_binary(inst)
          [] opcode = "UnaryArithmetic"  -> decode_unary(inst)
          [] opcode = "Pop"         -> Instr("Pop", LowBits(inst, 28), 0)
          [] opcode = "Goto"        -> Instr("Goto", SignExtend(ShrU32(inst, 2), 26), 0)
          [] opcode = "StringPrint" -> Instr("Stprint", LowBits(inst, 28), 0)
          [] opcode = "Call"        -> Instr("Call", SignExtend(inst, 26), 0)
          [] opcode = "Return"      -> Instr("Return", LowBits(inst, 26), 0)
          [] opcode = "BinaryIf"    ->
                Instr("BinaryIf", ShrU32(inst, 25) % 8, SignExtend(ShrU32(inst, 2), 23))
          [] opcode = "UnaryIf"     ->
                Instr(<<"EqZero", "NeZero", "LtZero", "GeZero">>[(ShrU32(inst, 25) % 4) + 1],
                      SignExtend(inst, 24), 0)
          [] opcode = "Dup"         -> Instr("Dup", LowBits(inst, 28), 0)
          [] opcode = "Print"       -> Instr("Print", LowBits(inst, 28), 0)
          [] opcode = "Dump"        -> Instr("Dump", 0, 0)
          [] opcode = "Push"        -> Instr("Push", SignExtend(inst, 28), 0)
          [] OTHER                  -> FetchPanics("Unimplemented opcode")

\* Machine::fetch: indexing ram with pc, then decoding.
fetch(ramv, pcv) ==
    IF pcv \in 0..(RamSize - 1) THEN decode(Word(ramv, pcv))
    ELSE FetchPanics("index out of bounds")

-----------------------------------------------------------------------------
(* The machine: load, and the helpers of the run loop. *)

\* The word load compares the first program word with: 0xEFBE_ADDE.
Magic == -272716322

\* u32::from_le_bytes, as main decodes each four bytes of the program file.
from_le_bytes(b) ==
    b[1] + 256 * b[2] + 65536 * b[3]
        + Pow2(24) * (IF b[4] >= 128 THEN b[4] - 256 ELSE b[4])

\* 0xDEADBEEF, the word main decodes from the file bytes EF BE AD DE; the
\* word load expects is the one decoded from DE AD BE EF.
SpecMagic == from_le_bytes(<<239, 190, 173, 222>>)

\* ram: [0; 1024]
EmptyRam == [a \in {} |-> 0]

\* A load that compares with the bytes in the other order.
bad_number_other_order(prog) == prog = <<>> \/ prog[1] # SpecMagic

\* Whether load rejects the program: `program.first() != Some(&0xEFBE_ADDE)`.
bad_number(prog) == prog = <<>> \/ prog[1] # Magic

\* ram after `self.ram[..program.len() - 1].copy_from_slice(&program[1..])`.
copy_from_slice(ramv, prog) ==
    LET new(a) == IF a < Len(prog) - 1 THEN prog[a + 2] ELSE Word(ramv, a)
    IN  [a \in {x \in (0..(Len(prog) - 2)) \cup DOMAIN ramv : new(x) # 0} |-> new(a)]

\* Machine::load, followed (when it returns Ok) by main's call of run.
Load ==
    /\ status = "new"
    /\ IF bad_number(program)
       THEN /\ status' = "load_error"
            /\ error' = "Bad number"
            /\ UNCHANGED <<ram, sp, pc>>
       ELSE IF Len(program) - 1 > RamSize
       THEN /\ status' = "panic"
            /\ error' = "range end index out of range for slice"
            /\ UNCHANGED <<ram, sp, pc>>
       ELSE /\ status' = "running"
            /\ error' = ""
            /\ ram' = copy_from_slice(ram, program)
            /\ sp' = RamSize
            /\ pc' = 0
    /\ UNCHANGED <<program, input, output, console, code, overflow_checks, streams,
                   trace>>

\* An instruction fetched from the words load copied, whatever was stored
\* since.
cur_loaded == fetch(copy_from_slice(EmptyRam, program), pc)

\* The instruction the loop is about to execute.
cur == fetch(ram, pc)

\* The run loop is at the top of an iteration that decodes to op.
Executing(op) ==
    /\ status = "running"
    /\ Len(trace) < MaxSteps
    /\ cur.op = op

\* Machine::step.
step(pcv) == pcv + 1

\* Machine::push: Err("Overflow") when sp <= 0; otherwise sp is decremented
\* and the word stored, which panics when the new sp is not an index of ram.
push(ramv, spv, word) ==
    IF spv <= 0 THEN [status |-> "Overflow", ram |-> ramv, sp |-> spv]
    ELSE IF spv - 1 >= RamSize THEN [status |-> "panic", ram |-> ramv, sp |-> spv - 1]
    ELSE [status |-> "ok", ram |-> Store(ramv, spv - 1, word), sp |-> spv - 1]

\* The pushes of a loop `for w in ws { self.push(w)?; }`.
RECURSIVE push_all(_, _, _)
push_all(ramv, spv, ws) ==
    IF ws = <<>> THEN [status |-> "ok", ram |-> ramv, sp |-> spv]
    ELSE LET r == push(ramv, spv, ws[1])
         IN  IF r.status # "ok" THEN r ELSE push_all(r.ram, r.sp, Tail(ws))

\* self.ram.get(i as usize).copied().unwrap_or(0), as Return and BinaryIf
\* read the stack.
get_or_zero(ramv, i) == IF i \in 0..(RamSize - 1) THEN Word(ramv, i) ELSE 0

\* What the history keeps of an iteration: where the instruction was fetched,
\* what it decoded to, and what it found: sp, the words at sp and sp + 1, the
\* line it is about to read, and how much output there was.
Entry ==
    [pc     |-> pc,
     ins    |-> cur,
     sp     |-> sp,
     top    |-> get_or_zero(ram, sp),
     under  |-> get_or_zero(ram, sp + 1),
     line   |-> IF cur.op \in {"Input", "Stinput"}
                THEN read_line(input, streams.reader).line ELSE <<>>,
     outlen |-> Len(output)]

\* One iteration of the loop ends: how, and with which machine state.  The
\* streams have served what the iteration read, wrote and printed.
Becomes(st, msg, c, ram2, sp2, pc2, in2, out2, con2) ==
    /\ status' = st
    /\ error' = msg
    /\ code' = c
    /\ ram' = ram2
    /\ sp' = sp2
    /\ pc' = pc2
    /\ input' = in2
    /\ output' = out2
    /\ console' = con2
    /\ LET Spend(plan, n) ==
               IF plan.fails THEN [plan EXCEPT !.after = @ - n] ELSE plan
       IN  streams' = [streams EXCEPT
                           !.reader = Spend(@, Len(input) - Len(in2)),
                           !.writer = Spend(@, Len(out2) - Len(output)),
                           !.stdout = Spend(@, con2 - console)]
    /\ trace' = Append(trace, Entry)
    /\ UNCHANGED <<program, overflow_checks>>

\* The iteration continues the loop with the given ram, sp and pc.
Continues(ram2, sp2, pc2) ==
    Becomes("running", "", code, ram2, sp2, pc2, input, output, console)

\* The iteration panics; sp2 is sp at that moment.
Panics(msg, sp2) ==
    Becomes("panic", msg, code, ram, sp2, pc, input, output, console)

\* The iteration returns Err(msg) from run.
Faults(msg, ram2, sp2, in2) ==
    Becomes("fault", msg, code, ram2, sp2, pc, in2, output, console)

\* After `self.push(word)?`: the loop goes on at pc2, or run ends.
AfterPush(r, pc2, in2) ==
    CASE r.status = "ok" ->
            Becomes("running", "", code, r.ram, r.sp, pc2, in2, output, console)
      [] r.status = "Overflow" -> Faults("Overflow", r.ram, r.sp, in2)
      [] r.status = "panic" ->
            Becomes("panic", "index out of bounds", code, r.ram, r.sp, pc, in2,
                    output, console)

\* After the writes w of an output instruction (`write_all(..)?`,
\* `writeln!(..)?`) and, when it flushes, `self.output.flush()?`: run returns
\* the io::Error of the write that failed, with the bytes written before it in
\* the output, or the io::Error of the flush, or the loop goes on.
AfterWrite(w, flushes) ==
    IF ~w.ok
    THEN Becomes("fault", "io::Error (write)", code, ram, sp, pc, input,
                 output \o w.written, console)
    ELSE IF flushes /\ streams.flush_fails
    THEN Becomes("fault", "io::Error (flush)", code, ram, sp, pc, input,
                 output \o w.written, console)
    ELSE Becomes("running", "", code, ram, sp, step(pc), input,
                 output \o w.written, console)

\* `self.pc += d` for an i16 d: the new pc, or a panic when the sum
\* overflows and overflow checks are on.
Jump(ram2, sp2, d) ==
    IF overflow_checks /\ AddI16Overflows(pc, d)
    THEN Becomes("panic", "attempt to add with overflow", code, ram2, sp2, pc,
                 input, output, console)
    ELSE Continues(ram2, sp2, AddI16(pc, d))

\* `(self.sp + (offset >> 2) as i16) as usize` for an unsigned or masked
\* offset: the index, RamSize (never a valid index) standing for every value
\* that is not one.
StackIndex(offset) ==
    LET i == AddI16(sp, AsI16(offset \div 4))
    IN  IF i \in 0..(RamSize - 1) THEN i ELSE RamSize

StackIndexOverflows(offset) ==
    overflow_checks /\ AddI16Overflows(sp, AsI16(offset \div 4))

-----------------------------------------------------------------------------
(* The arms of run's match, one action each. *)

\* Instruction::Exit(code) => return Ok(code).
Exit ==
    /\ Executing("Exit")
    /\ Becomes("halted", "", cur.a, ram, sp, pc, input, output, console)

\* An index that takes the field as a count of bytes and divides it by 4.
SwapIndex_bytes(spv, field) == spv + TruncDiv(SignExtend(field, 12), 4)

\* The index Swap computes from a 12-bit field:
\* sp + ((((field as i16) << 4) >> 2) >> 2), cast to usize.
SwapIndex(spv, field) == spv + ((AsI16(field * 16) \div 4) \div 4)

Swap ==
    /\ Executing("Swap")
    /\ LET f == SwapIndex(sp, cur.a)
           t == SwapIndex(sp, cur.b)
       IN  IF f \in 0..(RamSize - 1) /\ t \in 0..(RamSize - 1)
           THEN Continues(Store(Store(ram, f, Word(ram, t)), t, Word(ram, f)), sp, step(pc))
           ELSE Panics("index out of bounds", sp)

Nop ==
    /\ Executing("Nop")
    /\ Continues(ram, sp, step(pc))

\* The number Input parses from a trimmed line, by its prefix.
parse_input(trimmed) ==
    IF HasPrefix(trimmed, 48, 120) THEN from_str_radix(SubSeq(trimmed, 3, Len(trimmed)), 16)
    ELSE IF HasPrefix(trimmed, 48, 98) THEN from_str_radix(SubSeq(trimmed, 3, Len(trimmed)), 2)
    ELSE from_str_radix(trimmed, 10)

parse_error(trimmed) ==
    IF HasPrefix(trimmed, 48, 120) THEN "(input) hex input cannot be converted to an integer"
    ELSE IF HasPrefix(trimmed, 48, 98) THEN "(input) binary input cannotbe converted to an integer"
    ELSE "(input) decimal input cannot be converted to an integer"

Input ==
    /\ Executing("Input")
    /\ LET rl      == read_line(input, streams.reader)
           trimmed == trim(rl.line)
           word    == parse_input(trimmed)
       IN  IF ~rl.ok THEN Faults("IO error", ram, sp, rl.rest)
           ELSE IF ~word.ok THEN Faults(parse_error(trimmed), ram, sp, rl.rest)
           ELSE AfterPush(push(ram, sp, word.val), step(pc), rl.rest)

Stinput ==
    /\ Executing("Stinput")
    /\ LET rl    == read_line(input, streams.reader)
           bytes == Utf8(trim(rl.line))
           max   == cur.a
       IN  IF ~rl.ok THEN Faults("IO error", ram, sp, rl.rest)
           ELSE IF bytes = <<>>
           THEN \* push(0)?; continue -- the loop restarts without step()
                AfterPush(push(ram, sp, 0), pc, rl.rest)
           ELSE IF max <= Len(bytes) /\ ~is_char_boundary(bytes, max)
           THEN Becomes("panic", "assertion failed: self.is_char_boundary(new_len)",
                        code, ram, sp, pc, rl.rest, output, console)
           ELSE LET cut == IF max <= Len(bytes) THEN SubSeq(bytes, 1, max) ELSE bytes
                IN  AfterPush(push_all(ram, sp, StinputWords(PadToThree(cut))),
                              step(pc), rl.rest)

\* Instruction::Debug: println!("Debug"), which panics when the standard
\* output fails.
Debug ==
    /\ Executing("Debug")
    /\ IF Accepts(streams.stdout, 1)
       THEN Becomes("running", "", code, ram, sp, step(pc), input, output, console + 1)
       ELSE Panics("failed printing to stdout", sp)

\* The closures run hands to binary_op: the value, or the panic message.
Value(v) == [msg |-> "", val |-> v]

Panicking(m) == [msg |-> m, val |-> 0]

add_closure(l, r, checks) ==
    IF checks /\ AddOverflows(l, r) THEN Panicking("attempt to add with overflow")
    ELSE Value(WrapAdd(l, r))

\* A subtraction with its operands the other way round.
subtract_closure_swapped(l, r, checks) ==
    IF checks /\ SubOverflows(r, l) THEN Panicking("attempt to subtract with overflow")
    ELSE Value(WrapSub(r, l))

subtract_closure(l, r, checks) ==
    IF checks /\ SubOverflows(l, r) THEN Panicking("attempt to subtract with overflow")
    ELSE Value(WrapSub(l, r))

multiply_closure(l, r, checks) ==
    IF checks /\ MulOverflows(l, r) THEN Panicking("attempt to multiply with overflow")
    ELSE Value(WrapMul(l, r))

divide_closure(l, r, checks) ==
    IF r = 0 THEN Panicking("attempt to divide by zero")
    ELSE IF l = MinI32 /\ r = -1 THEN Panicking("attempt to divide with overflow")
    ELSE Value(TruncDiv(l, r))

remainder_closure(l, r, checks) ==
    IF r = 0 THEN Panicking("attempt to calculate the remainder with a divisor of zero")
    ELSE IF l = MinI32 /\ r = -1
    THEN Panicking("attempt to calculate the remainder with overflow")
    ELSE Value(TruncRem(l, r))

and_closure(l, r, checks) == Value(Bitwise(AndTable, l, r))

or_closure(l, r, checks) == Value(Bitwise(OrTable, l, r))

xor_closure(l, r, checks) == Value(Bitwise(XorTable, l, r))

\* |l, r| l << r, with l and r both i32.
shl_closure(l, r, checks) ==
    IF checks /\ ShiftOverflows(r) THEN Panicking("attempt to shift left with overflow")
    ELSE Value(ShlI32(l, ShiftAmount(r)))

\* |l, r| l >> r, with l and r both i32: the shift of a signed left operand.
shr_closure(l, r, checks) ==
    IF checks /\ ShiftOverflows(r) THEN Panicking("attempt to shift right with overflow")
    ELSE Value(ShrI32(l, ShiftAmount(r)))

\* |l, r| l as i32 >> r.
ashr_closure(l, r, checks) ==
    IF checks /\ ShiftOverflows(r) THEN Panicking("attempt to shift right with overflow")
    ELSE Value(ShrI32(l, ShiftAmount(r)))

closure(op, l, r, checks) ==
    CASE op = "Add"                  -> add_closure(l, r, checks)
      [] op = "Subtract"             -> subtract_closure(l, r, checks)
      [] op = "Multiply"             -> multiply_closure(l, r, checks)
      [] op = "Divide"               -> divide_closure(l, r, checks)
      [] op = "Remainder"            -> remainder_closure(l, r, checks)
      [] op = "And"                  -> and_closure(l, r, checks)
      [] op = "Or"                   -> or_closure(l, r, checks)
      [] op = "Xor"                  -> xor_closure(l, r, checks)
      [] op = "LogicalLeftShift"     -> shl_closure(l, r, checks)
      [] op = "LogicalRightShift"    -> shr_closure(l, r, checks)
      [] op = "ArithmeticRightShift" -> ashr_closure(l, r, checks)

\* Machine::binary_op, then step(): right = ram[sp], left = ram[sp + 1], the
\* result replaces left.  Each index and the closure may panic, with sp as
\* far as it was moved.
binary_op(op) ==
    /\ Executing(op)
    /\ IF sp \notin 0..(RamSize - 1) THEN Panics("index out of bounds", sp)
       ELSE IF sp + 1 \notin 0..(RamSize - 1) THEN Panics("index out of bounds", sp + 1)
       ELSE LET res == closure(op, Word(ram, sp + 1), Word(ram, sp), overflow_checks)
            IN  IF res.msg # "" THEN Panics(res.msg, sp + 2)
                ELSE Continues(Store(ram, sp + 1, res.val), sp + 1, step(pc))

Add == binary_op("Add")

Subtract == binary_op("Subtract")

Multiply == binary_op("Multiply")

Divide == binary_op("Divide")

Remainder == binary_op("Remainder")

And == binary_op("And")

Or == binary_op("Or")

Xor == binary_op("Xor")

LogicalLeftShift == binary_op("LogicalLeftShift")

LogicalRightShift == binary_op("LogicalRightShift")

ArithmeticRightShift == binary_op("ArithmeticRightShift")

\* Machine::unary_op, then step(): the word at sp is replaced by op of it.
unary_op(op) ==
    /\ Executing(op)
    /\ IF sp \notin 0..(RamSize - 1) THEN Panics("index out of bounds", sp)
       ELSE Continues(Store(ram, sp, IF op = "Not" THEN NotI32(Word(ram, sp))
                                     ELSE WrappingNeg(Word(ram, sp))),
                      sp, step(pc))

Not == unary_op("Not")

Negate == unary_op("Negate")

\* x.clamp(lo, hi) for lo <= hi.
clamp(x, lo, hi) == IF x < lo THEN lo ELSE IF x > hi THEN hi ELSE x

\* self.sp = (self.sp + (offset >> 2) as i16).clamp(0, 1024)
Pop ==
    /\ Executing("Pop")
    /\ LET d == AsI16(cur.a \div 4)
       IN  IF overflow_checks /\ AddI16Overflows(sp, d)
           THEN Panics("attempt to add with overflow", sp)
           ELSE Continues(ram, clamp(AddI16(sp, d), 0, RamSize), step(pc))

\* self.pc += offset as i16; continue
Goto ==
    /\ Executing("Goto")
    /\ Jump(ram, sp, AsI16(cur.a))

Stprint ==
    /\ Executing("Stprint")
    /\ LET idx == StackIndex(cur.a)
       IN  IF StackIndexOverflows(cur.a) THEN Panics("attempt to add with overflow", sp)
           ELSE IF idx = RamSize THEN Panics("index out of bounds", sp)
           ELSE LET w == write_all(StprintBytes(ram, idx), streams.writer)
                IN  IF w.ok /\ StprintStop(ram, idx) = RamSize
                    THEN \* the walk runs off the end of ram after its writes
                         Becomes("panic", "index out of bounds", code, ram, sp, pc,
                                 input, output \o w.written, console)
                    ELSE AfterWrite(w, TRUE)

\* A Call that pushes its own address.
return_address_own(pcv) == pcv

\* The word Call pushes: (self.pc + 1) as u32.
return_address(pcv) == pcv + 1

\* A Call that adds its offset to pc as a count of words.
Call_words ==
    /\ Executing("Call")
    /\ LET r == push(ram, sp, return_address(pc))
       IN  IF r.status = "ok" THEN Jump(r.ram, r.sp, AsI16(cur.a))
           ELSE AfterPush(r, pc, input)

Call ==
    /\ Executing("Call")
    /\ LET r == push(ram, sp, return_address(pc))
       IN  IF r.status = "ok" THEN Jump(r.ram, r.sp, AsI16(cur.a \div 4))
           ELSE AfterPush(r, pc, input)

\* sp after Return(offset): sp + 1 + ((offset >> 2) as i16).clamp(0, 1024 - sp).
return_sp(spv, offset) == spv + 1 + clamp(AsI16(offset \div 4), 0, RamSize - spv)

Return ==
    /\ Executing("Return")
    /\ IF RamSize - sp < 0 THEN Panics("assertion failed: min <= max", sp)
       ELSE Continues(ram, return_sp(sp, cur.a), AsI16(get_or_zero(ram, sp)))

\* The comparison of BinaryIf, on two u32.
binary_taken(cond, left, right) ==
    CASE cond = 0 -> left = right
      [] cond = 1 -> left # right
      [] cond = 2 -> LtU32(left, right)
      [] cond = 3 -> LtU32(right, left)
      [] cond = 4 -> ~LtU32(right, left)
      [] cond = 5 -> ~LtU32(left, right)
      [] OTHER    -> FALSE

\* A BinaryIf that pops the two words it compares.
BinaryIf_popping ==
    /\ Executing("BinaryIf")
    /\ IF binary_taken(cur.a, get_or_zero(ram, sp + 1), get_or_zero(ram, sp))
       THEN Jump(ram, sp + 2, AsI16(cur.b))
       ELSE Continues(ram, sp + 2, step(pc))

BinaryIf ==
    /\ Executing("BinaryIf")
    /\ IF binary_taken(cur.a, get_or_zero(ram, sp + 1), get_or_zero(ram, sp))
       THEN Jump(ram, sp, AsI16(cur.b))
       ELSE Continues(ram, sp, step(pc))

\* The conditions the unary-if arms hand to unary_if, on an i32.
unary_cond(op, x) ==
    CASE op = "EqZero" -> x = 0
      [] op = "NeZero" -> x # 0
      [] op = "GeZero" -> x >= 0
      [] op = "LtZero" -> x < 0

\* A unary_if that adds its offset to pc as a count of words.
unary_if_words(op) ==
    /\ Executing(op)
    /\ IF sp \notin 0..(RamSize - 1) THEN Panics("index out of bounds", sp)
       ELSE IF unary_cond(op, Word(ram, sp)) THEN Jump(ram, sp, AsI16(cur.a))
       ELSE Continues(ram, sp, step(pc))

\* Machine::unary_if and its arm: jump by (offset >> 2) as i16 when the
\* condition holds for the word at sp, step() otherwise.
unary_if(op) ==
    /\ Executing(op)
    /\ IF sp \notin 0..(RamSize - 1) THEN Panics("index out of bounds", sp)
       ELSE IF unary_cond(op, Word(ram, sp)) THEN Jump(ram, sp, AsI16(cur.a \div 4))
       ELSE Continues(ram, sp, step(pc))

EqZero == unary_if("EqZero")

NeZero == unary_if("NeZero")

GeZero == unary_if("GeZero")

LtZero == unary_if("LtZero")

Dup ==
    /\ Executing("Dup")
    /\ LET idx == StackIndex(cur.a)
       IN  IF StackIndexOverflows(cur.a) THEN Panics("attempt to add with overflow", sp)
           ELSE IF idx = RamSize THEN Panics("index out of bounds", sp)
           ELSE AfterPush(push(ram, sp, Word(ram, idx)), step(pc), input)

\* Instruction::Print(offset): one formatted line for the word at the index.
PrintWord ==
    /\ Executing("Print")
    /\ LET idx == StackIndex(cur.a)
       IN  IF StackIndexOverflows(cur.a) THEN Panics("attempt to add with overflow", sp)
           ELSE IF idx = RamSize THEN Panics("index out of bounds", sp)
           ELSE AfterWrite(write_all(PrintLine(Word(ram, idx), cur.a % 4),
                                     streams.writer), TRUE)

\* Instruction::Dump: nothing when sp == 1024; otherwise the lines, then a
\* flush.
Dump ==
    /\ Executing("Dump")
    /\ AfterWrite(write_all(DumpBytes(ram, sp), streams.writer), sp # RamSize)

Push ==
    /\ Executing("Push")
    /\ AfterPush(push(ram, sp, cur.a), step(pc), input)

\* fetch panics: pc is no index of ram, or the word is no instruction.
FetchPanic ==
    /\ Executing("panic")
    /\ Panics(cur.msg, sp)

-----------------------------------------------------------------------------
(* Encodings: the words that decode to given instructions, used to build   *)
(* the programs the machine is run on.                                     *)

\* The word with top four bits `group` and low 28 bits `payload`.
Enc(group, payload) ==
    IF group >= 8 THEN (group - 16) * Pow2(28) + payload ELSE group * Pow2(28) + payload

EncMisc(sub, payload) == Enc(0, sub * Pow2(24) + payload)

EncExit(c) == EncMisc(0, c)

\* from and to are the signed 12-bit fields.
EncSwap(from, to) == EncMisc(1, (from % 4096) * 4096 + (to % 4096))

EncNop == EncMisc(2, 0)

EncInput == EncMisc(4, 0)

EncStinput(max_chars) == EncMisc(5, max_chars)

EncDebug == EncMisc(15, 0)

EncPop(count) == Enc(1, count)

EncBinary(sub) == Enc(2, sub * Pow2(24))

EncUnary(sub) == Enc(3, sub * Pow2(24))

EncStprint(offset) == Enc(4, offset)

\* offset is the signed 26-bit field.
EncCall(offset) == Enc(5, offset % Pow2(26))

EncReturn(extra) == Enc(6, extra)

\* words is the signed 26-bit field held in bits 27-2.
EncGoto(words) == Enc(7, (words % Pow2(26)) * 4)

\* words is the signed 23-bit field held in bits 24-2.
EncBinaryIf(cond, words) == Enc(8, cond * Pow2(25) + (words % Pow2(23)) * 4)

\* offset is the signed 24-bit field.
EncUnaryIf(func2, offset) == Enc(9, func2 * Pow2(25) + (offset % Pow2(24)))

EncDup(offset) == Enc(12, offset)

EncPrint(offset) == Enc(13, offset)

EncDump == Enc(14, 0)

\* v is the signed 28-bit immediate.
EncPush(v) == Enc(15, v % Pow2(28))

-----------------------------------------------------------------------------
(* The programs and inputs the machine is run on.  A program is the word   *)
(* sequence handed to load, magic word first.  Words of ram that the       *)
(* program does not fill are zero, and zero decodes to Exit(0).            *)

\* Immediates of Push: the ends of the signed 28-bit range and values in it.
PushVals == {0, 1, -1, 5, 33, Pow2(27) - 1, -Pow2(27)}

\* Pop(PopTo(n)) executed with the stack empty leaves sp = n: its count,
\* shifted right by two and cast to i16, is n - 1024.
PopTo(n) == 4 * (65536 - (RamSize - n))

\* Instruction sequences that bring the machine to a stack depth of
\* interest before the next instruction: an empty stack, one or two words,
\* sp = 0, 1, 2, and sp = 1025 with pc = 2.
BasePrefixes ==
    {<<>>, <<EncPush(5)>>, <<EncPush(-1)>>, <<EncPush(5), EncPush(33)>>,
     <<EncPop(PopTo(0))>>, <<EncPop(PopTo(1))>>, <<EncPop(PopTo(2))>>,
     <<EncPush(2), EncReturn(4)>>}

MiscWords ==
    {EncExit(0), EncExit(5), EncExit(255), EncNop, EncDebug, EncMisc(3, 0),
     EncSwap(0, 4), EncSwap(4, 0), EncSwap(0, 0), EncSwap(-4, 0), EncSwap(0, 2047),
     EncSwap(1, 2), EncSwap(0, 1), EncSwap(1, 0), EncSwap(-1, 1)}

ReadingWords ==
    {EncInput, EncStinput(0), EncStinput(1), EncStinput(2), EncStinput(10)}

ArithmeticWords ==
    {EncBinary(k) : k \in 0..15} \cup {EncUnary(k) : k \in 0..2}

StackWords ==
    {EncPop(0), EncPop(4), EncPop(7), EncPop(8), EncPop(4096), EncPop(PopTo(0)),
     EncPop(PopTo(1023)), EncPop(4 * MaxI16), EncPop(Pow2(28) - 1),
     EncDup(0), EncDup(4), EncDup(4096), EncDup(4 * MaxI16),
     EncDump, EncStprint(0), EncStprint(4), EncStprint(4096)}
    \cup {EncPush(v) : v \in PushVals}
    \cup {EncPrint(k) : k \in 0..4}

ControlWords ==
    {EncGoto(1), EncGoto(2), EncGoto(0), EncGoto(-1), EncGoto(MaxI16),
     EncCall(8), EncCall(4), EncCall(0), EncCall(-4), EncCall(4 * MaxI16),
     EncReturn(0), EncReturn(4), EncReturn(8), EncReturn(4096),
     EncReturn(Pow2(26) - 1), Enc(10, 0), Enc(11, 0)}
    \cup {EncBinaryIf(c, 2) : c \in 0..7}
    \cup {EncUnaryIf(f, 8) : f \in 0..3}
    \cup {EncBinaryIf(0, 4 * MaxI16 + 3), EncUnaryIf(0, 4 * MaxI16)}

\* Input streams: texts for Stinput and for Input.
InputTexts ==
    {<<>>,
     <<104, 105, 10>>,   \* hi
     <<97, 10>>,   \* a
     <<97, 98, 99, 10>>,   \* abc
     <<97, 98, 99, 100, 10>>,   \* abcd
     <<104, 101, 108, 108, 111, 33, 10>>,   \* hello!
     <<32, 104, 105, 32, 10>>,   \*  hi 
     <<10>>,   \* empty line
     <<233, 116, 10>>,   \* e-acute t (a byte above 127)
     <<97, 1, 98, 10>>,   \* a, sentinel byte, b
     <<104, 105>>,   \* hi without newline
     <<53, 10>>,   \* 5
     <<45, 49, 10>>,   \* -1
     <<48, 120, 55, 102, 102, 102, 102, 102, 102, 102, 10>>,   \* 0x7fffffff
     <<48, 98, 49, 48, 49, 10>>,   \* 0b101
     <<122, 122, 10>>,   \* zz
     <<10, 10, 104, 105, 10>>}   \* two empty lines then hi
\* Numbers for the operands of arithmetic read by Input.
NumberLines ==
    {<<50, 49, 52, 55, 52, 56, 51, 54, 52, 55>>,
     <<45, 50, 49, 52, 55, 52, 56, 51, 54, 52, 56>>,
     <<45, 49>>,
     <<48>>,
     <<51, 51>>,
     <<48, 120, 49, 48>>}
\* Subroutine bodies between a Call and its Return.
Bodies ==
    {<<>>, <<EncNop>>, <<EncPush(9)>>, <<EncPush(9), EncPop(4)>>,
     <<EncPush(3), EncPush(4), EncBinary(0), EncPop(4)>>, <<EncPop(4)>>,
     <<EncDup(0)>>, <<EncDup(0), EncPop(4)>>, <<EncPush(1), EncSwap(0, 1)>>}

\* The instruction sequences run, each behind the magic word.
Bodies1 ==
    {pre \o <<w>> :
        pre \in BasePrefixes,
        w \in MiscWords \cup ArithmeticWords \cup StackWords \cup ControlWords
                 \cup ReadingWords}

Bodies2 ==
    {<<EncPush(a), EncPush(b), w>> :
        a \in PushVals, b \in PushVals, w \in ArithmeticWords \cup ControlWords}

Bodies3 ==
    {<<EncInput, EncInput, EncBinary(k)>> : k \in (0..9) \cup {11}}

Bodies4 ==
    {pre \o <<EncCall(8), EncExit(7)>> \o body \o <<EncReturn(e)>> :
        pre \in {<<>>, <<EncNop>>, <<EncPush(1)>>}, body \in Bodies, e \in {0, 4, 8}}

Bodies5 ==
    {<<EncStinput(m), EncStprint(o)>> : m \in {0, 1, 2, 3, 4, 10}, o \in {0, 4}}

\* A body that fills ram: Push 5 stores its word at address 1023, over the
\* Exit 9 loaded there, and Goto continues at that address.
OverwritingBody ==
    [i \in 1..RamSize |-> CASE i = 1 -> EncPush(5)
                           [] i = 2 -> EncGoto(RamSize - 2)
                           [] i = RamSize -> EncExit(9)
                           [] OTHER -> 0]

\* Bodies of about RamSize words (Push 7, then zeros), and the overwriting one.
Bodies6 ==
    {[i \in 1..n |-> IF i = 1 THEN EncPush(7) ELSE 0] : n \in (RamSize - 1)..(RamSize + 1)}
    \cup {OverwritingBody}

Bodies7 ==
    {pre \o <<EncPush(a), EncPush(b), EncBinary(1)>> :
        pre \in {<<EncPush(1)>>} \cup {<<EncPop(PopTo(n))>> : n \in {2, 3, 4, 5, 512}},
        a \in {5, -1, -Pow2(27)}, b \in {33, -1, Pow2(27) - 1}}

Bodies8 ==
    {<<EncPush(v), EncExit(c)>> : v \in PushVals, c \in {0, 1, 5, 127, 128, 255}}

ReadsInput(body) ==
    \E i \in 1..Len(body) : decode(body[i]).op \in {"Input", "Stinput"}

\* Bodies that read, write and print: run on streams that fail as well.  The
\* word 4407873 packs the bytes "ABC".
Bodies9 ==
    {<<EncInput, EncInput>>, <<EncPop(PopTo(0)), EncInput>>,
     <<EncStinput(10), EncStprint(0)>>, <<EncStinput(10), EncStinput(10)>>,
     <<EncDebug, EncDebug, EncExit(0)>>,
     <<EncPush(5), EncPrint(0), EncPrint(1), EncExit(0)>>,
     <<EncPush(2), EncPush(1), EncDump, EncDump>>,
     <<EncDump, EncPush(0), EncStprint(0), EncExit(0)>>,
     <<EncPush(4407873), EncStprint(0), EncStprint(0)>>}

\* Streams that never fail.
Working == [reader |-> Sound, writer |-> Sound, flush_fails |-> FALSE, stdout |-> Sound]

\* Streams of which one fails: the reader at once or after some bytes, the
\* writer at once, inside a line or after a line of Dump, the flush, println!
\* at once or after a line.
FailingStreams ==
    {[Working EXCEPT !.reader = [fails |-> TRUE, after |-> n]] : n \in 0..3}
    \cup {[Working EXCEPT !.writer = [fails |-> TRUE, after |-> n]] : n \in {0, 2, 15}}
    \cup {[Working EXCEPT !.flush_fails = TRUE]}
    \cup {[Working EXCEPT !.stdout = [fails |-> TRUE, after |-> n]] : n \in 0..1}

\* The configurations: the program handed to load, the bytes on the input,
\* and the behaviour of the streams.
Configs ==
    {[program |-> <<Magic>> \o b, input |-> IF ReadsInput(b) THEN t ELSE <<>>,
      streams |-> Working] :
        b \in Bodies1 \cup Bodies2 \cup Bodies4 \cup Bodies5 \cup Bodies6 \cup Bodies7
                 \cup Bodies8,
        t \in InputTexts}
    \cup {[program |-> <<Magic>> \o b, input |-> x \o <<NewLine>> \o y \o <<NewLine>>,
            streams |-> Working] :
            b \in Bodies3, x \in NumberLines, y \in NumberLines}
    \cup {[program |-> p, input |-> <<>>, streams |-> Working] :
            p \in {<<>>, <<SpecMagic>>, <<SpecMagic, EncPush(5), EncExit(5)>>,
                   <<EncPush(5), EncExit(5)>>, <<0, Magic>>, <<Magic + 1, EncExit(5)>>}}
    \cup {[program |-> <<Magic>> \o b, input |-> IF ReadsInput(b) THEN t ELSE <<>>,
            streams |-> f] :
            b \in Bodies9,
            t \in {<<>>, <<53, 10>>, <<97, 98, 10>>, <<104, 105>>, <<10, 53, 10>>},
            f \in FailingStreams \cup {Working}}

-----------------------------------------------------------------------------
(* The state machine. *)

\* main: the machine as constructed, before load.
Init ==
    /\ \E c \in Configs :
          program = c.program /\ input = c.input /\ streams = c.streams
    /\ overflow_checks \in BOOLEAN
    /\ ram = EmptyRam
    /\ sp = RamSize
    /\ pc = 0
    /\ output = <<>>
    /\ console = 0
    /\ status = "new"
    /\ code = 0
    /\ error = ""
    /\ trace = <<>>

Next ==
    \/ Load
    \/ FetchPanic
    \/ Exit \/ Swap \/ Nop \/ Input \/ Stinput \/ Debug
    \/ Add \/ Subtract \/ Multiply \/ Divide \/ Remainder
    \/ And \/ Or \/ Xor
    \/ LogicalLeftShift \/ LogicalRightShift \/ ArithmeticRightShift
    \/ Not \/ Negate
    \/ Pop \/ Goto \/ Stprint \/ Call \/ Return
    \/ BinaryIf \/ EqZero \/ NeZero \/ GeZero \/ LtZero
    \/ Dup \/ PrintWord \/ Dump \/ Push

Spec == Init /\ [][Next]_vars

-----------------------------------------------------------------------------
(* Properties of the machine, one section per claim of the specification. *)

\* The iteration the loop ran last, when it has run one.
last == trace[Len(trace)]

\* Whether the branch instruction recorded in e found its condition true.
taken(e) ==
    CASE e.ins.op = "BinaryIf" -> binary_taken(e.ins.a, e.under, e.top)
      [] e.ins.op \in {"EqZero", "NeZero", "GeZero", "LtZero"} ->
            unary_cond(e.ins.op, e.top)
      [] OTHER -> FALSE

\* The errors and the panic with which a failing stream ends the run.
StreamErrors ==
    {"IO error", "io::Error (write)", "io::Error (flush)", "failed printing to stdout"}

\* The instructions that set pc themselves.
Control == {"Exit", "Goto", "Call", "Return"}

\* C1: run ends only by Exit, with a halt code of 8 bits, or with an error
\* value it returns: no iteration of the loop ends in a panic.
C1_RunNeverPanics ==
    /\ ~(status = "panic" /\ trace # <<>>)
    /\ status = "halted" => code \in 0..255

\* C2: while a loaded program runs, and when the run has ended with a halt
\* code or an error value, sp is between 0 and 1024.
C2_SpInRange == status \in {"running", "halted", "fault"} => sp \in 0..RamSize

\* C3: after an iteration that executed an instruction other than Exit, Goto,
\* Call, Return or a taken branch, and that went on with the loop, pc is one
\* more than it was; Stinput on an empty line is such an instruction.
C3_PcAdvancesByOne ==
    (/\ trace # <<>>
     /\ status = "running"
     /\ last.ins.op \notin Control
     /\ ~taken(last))
    => pc = last.pc + 1

\* The bytes a line may consist of for the round trip of C4: neither 0, nor
\* the padding byte 1, nor white space.
Plain(line) ==
    \A i \in 1..Len(line) : line[i] \notin WhiteSpace \cup {0, 1}

\* C4: Stinput(max_chars) on a non-empty line of at most max_chars plain
\* bytes, followed by Stprint at offset 0, writes exactly the bytes of the
\* line to the output, when no stream fails.
C4_StringRoundTrip ==
    \A i \in 1..(Len(trace) - 1) :
        (/\ i + 1 = Len(trace)
         /\ error \notin StreamErrors
         /\ trace[i].ins.op = "Stinput"
         /\ trace[i + 1].ins.op = "Stprint" /\ trace[i + 1].ins.a = 0
         /\ trace[i].line # <<>>
         /\ Len(trace[i].line) <= trace[i].ins.a
         /\ Plain(trace[i].line))
        => SubSeq(output, trace[i + 1].outlen + 1, Len(output)) = trace[i].line

\* The iterations i < j of the history where i executed a Call at some
\* address, the Call pushed, and j executes a Return that finds sp as the
\* Call left it and, at sp, the word the Call pushed.
CallReturnPairs ==
    {ij \in (1..Len(trace)) \X (1..Len(trace)) :
        /\ ij[1] < ij[2]
        /\ trace[ij[1]].ins.op = "Call"
        /\ trace[ij[2]].ins.op = "Return"
        /\ trace[ij[2]].sp = trace[ij[1] + 1].sp
        /\ trace[ij[2]].top = trace[ij[1] + 1].top}

\* C5: when a Call executed at address p is followed, after any instructions,
\* by a Return that finds sp as the Call left it and at sp the word the Call
\* pushed, the Return continues the loop and the next instruction is fetched
\* at p + 1.
C5_ReturnResumesAfterCall ==
    \A ij \in CallReturnPairs :
        ij[2] = Len(trace) => status = "running" /\ pc = trace[ij[1]].pc + 1

\* C5 happens: a Return has just matched a Call made at an address other than
\* 0, with other instructions executed in between.
C5_Witness ==
    \E ij \in CallReturnPairs :
        /\ ij[2] = Len(trace)
        /\ ij[2] > ij[1] + 1
        /\ trace[ij[1]].pc > 0
        /\ status = "running"
        /\ pc = trace[ij[1]].pc + 1

\* C6 as the specification states it: load of a program that is empty or
\* whose first word is not 0xDEADBEEF returns the bad-program error and
\* leaves ram unchanged.
C6_RejectsAllButDeadBeef ==
    (status # "new" /\ (program = <<>> \/ program[1] # SpecMagic))
    => (status = "load_error" /\ ram = EmptyRam)

\* C6: load of a program that is empty or whose first word is not 0xEFBEADDE
\* returns the bad-program error and leaves ram, sp and pc as they were.
C6_RejectsAllButMagic ==
    (status # "new" /\ (program = <<>> \/ program[1] # Magic))
    => /\ status = "load_error"
       /\ error = "Bad number"
       /\ ram = EmptyRam /\ sp = RamSize /\ pc = 0
       /\ trace = <<>>

\* C6 happens: load has rejected a program that begins with 0xDEADBEEF.
C6_Witness ==
    /\ status = "load_error"
    /\ program # <<>>
    /\ program[1] = SpecMagic
    /\ ram = EmptyRam

\* C7: load of a program with more than 1024 words after the magic word
\* returns an error value.
C7_OversizedProgramIsRejected ==
    (/\ status # "new"
     /\ program # <<>>
     /\ program[1] = Magic
     /\ Len(program) - 1 > RamSize)
    => status = "load_error"

\* The instructions that push.
Pushing == {"Push", "Dup", "Call", "Input", "Stinput"}

\* C8: an iteration that executes a pushing instruction with sp = 0 (having
\* read its line, when it reads one) ends the run with the stack-overflow
\* fault, and leaves sp and ram as they were.
C8_PushOnFullStackFaults ==
    [][(/\ status = "running" /\ sp = 0 /\ cur.op \in Pushing
        /\ cur.op \in {"Input", "Stinput"} => read_line(input, streams.reader).ok)
       => (/\ status' = "fault"
           /\ error' = "Overflow"
           /\ sp' = sp
           /\ ram' = ram)]_vars

\* The iterations i of the history that executed Push a, followed by Push b
\* and by Subtract.
PushPushSubtract ==
    {i \in 1..(Len(trace) - 2) :
        /\ trace[i].ins.op = "Push"
        /\ trace[i + 1].ins.op = "Push"
        /\ trace[i + 2].ins.op = "Subtract"}

\* C9 as the specification states it: Push a, Push b, Subtract from sp = s
\* leave a - b on top of the stack and sp one greater than s.
C9_SubtractLeavesSpAbove ==
    \A i \in PushPushSubtract :
        i + 2 = Len(trace) =>
            /\ status = "running"
            /\ get_or_zero(ram, sp) = trace[i].ins.a - trace[i + 1].ins.a
            /\ sp = trace[i].sp + 1

\* C9: Push a, Push b, Subtract from sp = s leave a - b on top of the stack
\* and sp one less than s: the stack is one word deeper than before.
C9_SubtractLeavesDifference ==
    \A i \in PushPushSubtract :
        i + 2 = Len(trace) =>
            /\ status = "running"
            /\ get_or_zero(ram, sp) = trace[i].ins.a - trace[i + 1].ins.a
            /\ sp = trace[i].sp - 1

\* C9 happens: the three instructions have run from sp = 2 with the least
\* and the greatest immediate, in a build that checks overflow.
C9_Witness ==
    \E i \in PushPushSubtract :
        /\ i + 2 = Len(trace)
        /\ trace[i].sp = 2
        /\ trace[i].ins.a = -Pow2(27)
        /\ trace[i + 1].ins.a = Pow2(27) - 1
        /\ overflow_checks
        /\ status = "running"
        /\ sp = 1
        /\ get_or_zero(ram, sp) = 1 - Pow2(28)

\* A program of three words: first, then Push v, then Exit c.
PushExit(first) ==
    /\ Len(program) = 3
    /\ program[1] = first
    /\ decode(program[2]).op = "Push"
    /\ decode(program[3]).op = "Exit"

\* C10 as the specification states it: the program 0xDEADBEEF, Push v,
\* Exit c loads, and its run ends with halt code c.
C10_DeadBeefPushExitHalts ==
    PushExit(SpecMagic) =>
        /\ status \in {"new", "running", "halted"}
        /\ status = "halted" => code = decode(program[3]).a

\* C10: the program 0xEFBEADDE, Push v, Exit c loads, executes Push v and
\* then Exit c, and its run ends with halt code c, the low byte of the Exit
\* word.
C10_PushExitHalts ==
    PushExit(Magic) =>
        /\ status \in {"new", "running", "halted"}
        /\ status = "running" =>
              \/ trace = <<>> /\ ram = copy_from_slice(EmptyRam, program)
                              /\ cur.op = "Push"
              \/ Len(trace) = 1 /\ cur.op = "Exit"
        /\ status = "halted" =>
              /\ Len(trace) = 2
              /\ code = program[3] % 256
              /\ Word(ram, sp) = decode(program[2]).a

\* C10 happens: Push -1, Exit 255 behind the magic word has halted with
\* code 255.
C10_Witness ==
    /\ PushExit(Magic)
    /\ decode(program[2]).a = -1
    /\ status = "halted"
    /\ code = 255

\* Whether the line Stinput read, trimmed and truncated to max bytes, is
\* empty.
TruncatedIsEmpty(e) == Utf8(trim(e.line)) = <<>> \/ e.ins.a = 0

\* C11: Stinput(max_chars) executed with sp > 0 that reads a line which is
\* empty once trimmed and truncated to max_chars bytes pushes exactly one
\* word, zero, and does not fault.
C11_EmptyStinputPushesZero ==
    (/\ trace # <<>>
     /\ last.ins.op = "Stinput"
     /\ error # "IO error"
     /\ last.sp \in 1..RamSize
     /\ TruncatedIsEmpty(last))
    => /\ status = "running"
       /\ sp = last.sp - 1
       /\ Word(ram, sp) = 0


\* The smaller of two integers.
Min(a, b) == IF a < b THEN a ELSE b

\* C12: Pop(count) executed with sp in 0..1024 continues the run with
\* sp = min(sp + floor(count / 4), 1024), which is never less than sp was,
\* and changes no word of ram.
C12_PopRaisesSp ==
    [][(status = "running" /\ cur.op = "Pop" /\ sp \in 0..RamSize)
       => (/\ status' = "running"
           /\ sp' = Min(sp + (cur.a \div 4), RamSize)
           /\ sp' >= sp
           /\ ram' = ram)]_vars


\* The instructions that branch on a condition.
Branches == {"BinaryIf", "EqZero", "NeZero", "LtZero", "GeZero"}

\* C13: an iteration that executed BinaryIf or a unary-if instruction leaves
\* sp as it found it, whether the branch was taken or not and however the
\* iteration ended.
C13_BranchKeepsSp ==
    (trace # <<>> /\ last.ins.op \in Branches) => sp = last.sp

\* C13 happens: a BinaryIf on two words of the stack has taken its branch
\* and the loop goes on with sp unchanged.
C13_Witness ==
    /\ trace # <<>>
    /\ last.ins.op = "BinaryIf"
    /\ last.sp = RamSize - 2
    /\ taken(last)
    /\ status = "running"
    /\ pc # last.pc + 1
    /\ sp = last.sp


\* C14: a Push of w executed with sp > 0 continues the run with sp one less
\* and w in the word at sp; Pop with count 4 executed with sp < 1024
\* continues the run with sp one more.
C14_PushAndSinglePop ==
    trace # <<>> =>
        /\ (last.ins.op = "Push" /\ last.sp > 0)
           => /\ status = "running"
              /\ sp = last.sp - 1
              /\ get_or_zero(ram, sp) = last.ins.a
        /\ (last.ins.op = "Pop" /\ last.ins.a = 4 /\ last.sp < RamSize)
           => /\ status = "running"
              /\ sp = last.sp + 1


\* The order of two words read as signed 32-bit integers, by the comparison
\* codes lt, gt, le, ge of BinaryIf.
signed_relation(cond, left, right) ==
    CASE cond = 2 -> left < right
      [] cond = 3 -> left > right
      [] cond = 4 -> left <= right
      [] cond = 5 -> left >= right

\* C15: BinaryIf with code lt, gt, le or ge that continues the run has
\* taken the branch (pc moved by the offset) exactly when the relation
\* holds between the word at sp + 1 and the word at sp, both read as signed
\* 32-bit integers.
C15_BinaryIfComparesSigned ==
    (/\ trace # <<>>
     /\ last.ins.op = "BinaryIf"
     /\ last.ins.a \in 2..5
     /\ last.sp \in 0..(RamSize - 2)
     /\ status = "running")
    => pc = IF signed_relation(last.ins.a, last.under, last.top)
            THEN AddI16(last.pc, AsI16(last.ins.b))
            ELSE last.pc + 1


\* ram2 is ram1 with the words at f and t exchanged.
Exchanged(ram1, ram2, f, t) ==
    \A a \in 0..(RamSize - 1) :
        Word(ram2, a) = IF a = f THEN Word(ram1, t)
                        ELSE IF a = t THEN Word(ram1, f)
                        ELSE Word(ram1, a)

\* C16 as the specification states it: Swap exchanges the words at
\* sp + from / 4 and sp + to / 4, the fields sign-extended from 12 bits and
\* divided by 4 toward zero, and leaves sp and the other words alone.
C16_SwapDividesByFour ==
    [][LET f == sp + TruncDiv(SignExtend(cur.a, 12), 4)
           t == sp + TruncDiv(SignExtend(cur.b, 12), 4)
       IN  (/\ status = "running" /\ cur.op = "Swap"
            /\ f \in 0..(RamSize - 1) /\ t \in 0..(RamSize - 1))
           => (status' = "running" /\ sp' = sp /\ Exchanged(ram, ram', f, t))]_vars

\* C16: Swap exchanges the words at sp + from and sp + to, the fields
\* sign-extended from 12 bits and counted in words, leaves sp and the other
\* words alone and goes on at pc + 1; when one of the two addresses is not
\* in 0..1023 the iteration panics and nothing is changed.
C16_SwapExchangesWords ==
    [][LET f == sp + SignExtend(cur.a, 12)
           t == sp + SignExtend(cur.b, 12)
       IN  (status = "running" /\ cur.op = "Swap")
           => IF f \in 0..(RamSize - 1) /\ t \in 0..(RamSize - 1)
              THEN /\ status' = "running"
                   /\ sp' = sp
                   /\ pc' = pc + 1
                   /\ Exchanged(ram, ram', f, t)
              ELSE /\ status' = "panic"
                   /\ sp' = sp
                   /\ ram' = ram]_vars

\* C16 happens: Swap with fields 0 and 1 has exchanged the two different
\* words on top of the stack.
C16_Witness ==
    /\ trace # <<>>
    /\ last.ins.op = "Swap"
    /\ last.ins.a # last.ins.b
    /\ last.ins.a \in {0, 1} /\ last.ins.b \in {0, 1}
    /\ last.top # last.under
    /\ status = "running"
    /\ sp = last.sp
    /\ Word(ram, sp) = last.under
    /\ Word(ram, sp + 1) = last.top


\* Whether n is a value of an i16.
InI16(n) == n \in MinI16..MaxI16

\* C17 as the specification states it: Call fetched at p with sp > 0 pushes
\* p + 1 and continues at p + offset, the low 26 bits sign-extended and
\* counted in words.
C17_CallJumpsByWords ==
    (trace # <<>> /\ last.ins.op = "Call" /\ last.sp > 0)
    => /\ status = "running"
       /\ sp = last.sp - 1
       /\ get_or_zero(ram, sp) = last.pc + 1
       /\ pc = last.pc + last.ins.a

\* C17: Call fetched at p with sp in 1..1024 pushes p + 1 and continues at
\* p + d, where d is the low 26 bits sign-extended, shifted right by two and
\* cast to i16; when p + d is no i16, a build that checks overflow panics
\* after the push and another build wraps the sum.  With sp above 1024 the
\* push panics.
C17_CallJumpsByQuarter ==
    (trace # <<>> /\ last.ins.op = "Call" /\ last.sp > 0)
    => IF last.sp > RamSize THEN status = "panic"
       ELSE LET d == AsI16(last.ins.a \div 4)
            IN  /\ sp = last.sp - 1
                /\ get_or_zero(ram, sp) = last.pc + 1
                /\ IF overflow_checks /\ ~InI16(last.pc + d)
                   THEN status = "panic"
                   ELSE status = "running" /\ pc = AsI16(last.pc + d)

\* C17 happens: a Call with offset -4, fetched at an address above 0, has
\* pushed its return address and continues one word before itself.
C17_Witness ==
    /\ trace # <<>>
    /\ last.ins.op = "Call"
    /\ last.ins.a = -4
    /\ last.pc > 0
    /\ status = "running"
    /\ pc = last.pc - 1
    /\ sp = last.sp - 1
    /\ Word(ram, sp) = last.pc + 1


\* The unary-if instructions.
UnaryIfs == {"EqZero", "NeZero", "LtZero", "GeZero"}

\* The condition of a unary-if instruction on a word read as a signed
\* 32-bit integer.
zero_relation(op, x) ==
    CASE op = "EqZero" -> x = 0
      [] op = "NeZero" -> x # 0
      [] op = "LtZero" -> x < 0
      [] op = "GeZero" -> x >= 0

\* C18 as the specification states it: a unary-if fetched at p whose
\* condition holds for the word at sp continues at p + offset, the low 24
\* bits sign-extended and counted in words; one whose condition does not
\* hold continues at p + 1.
C18_UnaryIfJumpsByWords ==
    (trace # <<>> /\ last.ins.op \in UnaryIfs /\ last.sp \in 0..(RamSize - 1))
    => /\ status = "running"
       /\ pc = IF zero_relation(last.ins.op, last.top)
               THEN last.pc + last.ins.a
               ELSE last.pc + 1

\* C18: a unary-if fetched at p with sp in 0..1023 whose condition holds for
\* the word at sp, read as signed, continues at p + d, where d is the low
\* 24 bits sign-extended, shifted right by two and cast to i16; when p + d
\* is no i16, a build that checks overflow panics and another build wraps
\* the sum.  One whose condition does not hold continues at p + 1.  With
\* sp above 1023 the iteration panics.
C18_UnaryIfJumpsByQuarter ==
    (trace # <<>> /\ last.ins.op \in UnaryIfs)
    => IF last.sp \notin 0..(RamSize - 1) THEN status = "panic"
       ELSE LET d == AsI16(last.ins.a \div 4)
            IN  IF ~zero_relation(last.ins.op, last.top)
                THEN status = "running" /\ pc = last.pc + 1
                ELSE IF overflow_checks /\ ~InI16(last.pc + d)
                THEN status = "panic"
                ELSE status = "running" /\ pc = AsI16(last.pc + d)

\* C18 happens: LtZero with offset 8 has found a negative word on the stack
\* and continues two words after itself.
C18_Witness ==
    /\ trace # <<>>
    /\ last.ins.op = "LtZero"
    /\ last.ins.a = 8
    /\ last.top < 0
    /\ status = "running"
    /\ pc = last.pc + 2


\* C19: Return(extra) executed with sp = s in 0..1023 continues the run with
\* pc the word read at s and sp = s + 1 + min(floor(extra / 4), 1024 - s).
C19_ReturnPopsExtra ==
    (trace # <<>> /\ last.ins.op = "Return" /\ last.sp \in 0..(RamSize - 1))
    => /\ status = "running"
       /\ pc = last.top
       /\ sp = last.sp + 1 + Min(last.ins.a \div 4, RamSize - last.sp)


\* C20: LogicalRightShift of a left operand with bit 31 set by an amount in
\* 1..31 leaves the operand's bits shifted right with zeros filled in: a
\* non-negative word, which is not what ArithmeticRightShift leaves.
C20_LogicalShiftFillsZeros ==
    (/\ trace # <<>>
     /\ last.ins.op = "LogicalRightShift"
     /\ last.sp \in 0..(RamSize - 2)
     /\ last.under < 0
     /\ last.top \in 1..31)
    => /\ status = "running"
       /\ sp = last.sp + 1
       /\ Word(ram, sp) = ShrU32(last.under, last.top)
       /\ Word(ram, sp) >= 0
       /\ Word(ram, sp) # ShrI32(last.under, last.top)


\* The addresses of ram that hold a word of the loaded program.
Loaded == 0..(Len(program) - 2)

\* The addresses the instruction recorded in e may have stored a word at.
WrittenBy(e) ==
    CASE e.ins.op \in {"Push", "Dup", "Call", "Input"} -> {e.sp - 1}
      [] e.ins.op = "Stinput" -> 0..(e.sp - 1)
      [] e.ins.op \in {"Add", "Subtract", "Multiply", "Divide", "Remainder", "And",
                       "Or", "Xor", "LogicalLeftShift", "LogicalRightShift",
                       "ArithmeticRightShift"} -> {e.sp + 1}
      [] e.ins.op \in {"Not", "Negate"} -> {e.sp}
      [] e.ins.op = "Swap" ->
            {e.sp + SignExtend(e.ins.a, 12), e.sp + SignExtend(e.ins.b, 12)}
      [] OTHER -> {}

\* The iterations i < j of the history where i executed a Push that stored
\* its word at an address holding a loaded program word, j fetched its
\* instruction at that address, and nothing was stored there in between.
OverwriteFetchPairs ==
    {ij \in (1..Len(trace)) \X (1..Len(trace)) :
        /\ ij[1] < ij[2]
        /\ trace[ij[1]].ins.op = "Push"
        /\ trace[ij[1]].sp - 1 \in Loaded
        /\ trace[ij[2]].pc = trace[ij[1]].sp - 1
        /\ \A k \in (ij[1] + 1)..(ij[2] - 1) :
              trace[ij[1]].sp - 1 \notin WrittenBy(trace[k])}

\* C21: a Push executed while sp - 1 is an address that holds a loaded
\* program word continues the run with its word stored there, and a later
\* iteration that fetches at that address, nothing having been stored there
\* since, executes the instruction the pushed word decodes to.
C21_PushOverwritesCode ==
    /\ (trace # <<>> /\ last.ins.op = "Push" /\ last.sp - 1 \in Loaded)
       => /\ status = "running"
          /\ sp = last.sp - 1
          /\ Word(ram, sp) = last.ins.a
    /\ \A ij \in OverwriteFetchPairs :
          trace[ij[2]].ins = decode(trace[ij[1]].ins.a)

\* C21 happens: a program of 1024 words has pushed 5 over the Exit 9 loaded
\* at address 1023, has jumped there and has halted with code 5.
C21_Witness ==
    /\ Len(program) = RamSize + 1
    /\ program[RamSize + 1] = EncExit(9)
    /\ \E ij \in OverwriteFetchPairs :
          /\ ij[2] = Len(trace)
          /\ trace[ij[1]].sp = RamSize
          /\ trace[ij[2]].pc = RamSize - 1
          /\ trace[ij[2]].ins.op = "Exit"
    /\ status = "halted"
    /\ code = 5

=============================================================================
